---- MODULE Spec2Model ----
(***************************************************************************)
(* react-safe-query: router composition, query-key middleware, context    *)
(* accessors and the wrapped query function (src/src/index.ts).           *)
(*                                                                         *)
(* A value that may be JavaScript `undefined` is an option: <<>> is        *)
(* undefined and <<x>> is the value x.                                     *)
(***************************************************************************)
EXTENDS Integers, Sequences, FiniteSets, TLC

VARIABLES
    routerCount,   \* index.ts:94   let routerCount = 0
    queries,       \* the objects made by query(): each one's useQuery member
    routers,       \* the objects returned by createRouter, in call order
    cache,         \* the QueryClient's entries, by query key
    calls,         \* number of calls made on the cache engine so far
    last,          \* the last call handed to the cache engine, and its result
    attempt        \* the running invocation of a wrapped queryFn

vars == <<routerCount, queries, routers, cache, calls, last, attempt>>

routerVars == <<routerCount, queries, routers>>
engineVars == <<cache, calls, last>>

(***************************************************************************)
(* Bounds of the model.                                                    *)
(***************************************************************************)
MaxQueries == 2
MaxRouters == 2
MaxCalls == 2
MaxInvocations == 2

Names == {"fetchAll", "all"}

Undefined == <<>>
Some(x) == <<x>>

(***************************************************************************)
(* Values of a Router Definition (types.ts Routes): a query leaf is a      *)
(* reference to an object made by query(), a mutation is an object with    *)
(* only useMutation, a nested router is a reference to a Router Instance.  *)
(***************************************************************************)
QueryValue(i) == [t |-> "query", ref |-> i]
MutationValue == [t |-> "mutation", ref |-> 0]
RouterValue(j) == [t |-> "router", ref |-> j]

\* 'useQuery' in value && typeof value.useQuery === 'function'
HasUseQueryFn(value) == value.t = "query"
\* 'useContext' in value
NoUseContext(value) == FALSE
HasUseContext(value) == value.t = "router"

(***************************************************************************)
(* query(): the returned object's useQuery is the three-argument function  *)
(* that uses its _key argument.  Each application of the middleware wraps  *)
(* the current useQuery in a two-argument function that calls it with its  *)
(* own bound key.  A useQuery member is modelled by the sequence of keys   *)
(* bound by the wrappers around the original, innermost first.             *)
(***************************************************************************)
UseQueryWithOwnKey == <<"query">>
OriginalUseQuery == <<>>

\* routerId + '/' + key
FullKeyNameOnly(routerId, key) == key
FullKey(routerId, key) == routerId \o "/" \o key

\* value.useQuery = (args, options) => originalUseQuery(args, options, routerId + '/' + key)
WrapDropsInner(useQuery, fullKey) == <<fullKey>>
Wrap(useQuery, fullKey) == Append(useQuery, fullKey)

\* The _key that reaches the original three-argument useQuery when the
\* function `useQuery` is called with third argument `key`: wrapper number
\* depth ignores what it is passed and calls the one below with its own key.
RECURSIVE KeyReaching(_, _, _)
KeyReaching(useQuery, depth, key) ==
    IF depth = 0 THEN key
    ELSE KeyReaching(useQuery, depth - 1, Some(useQuery[depth]))

\* the public call useQuery(args, options): no third argument
PublicKeyOfLastWrapper(useQuery) ==
    IF useQuery = <<>> THEN Undefined ELSE Some(useQuery[Len(useQuery)])
PublicKey(useQuery) == KeyReaching(useQuery, Len(useQuery), Undefined)

(***************************************************************************)
(* applyQueryKeyMiddleware: Object.entries(routes).forEach, in insertion   *)
(* order; rewrites the useQuery member of each value that has one.         *)
(***************************************************************************)
RECURSIVE ApplyFrom(_, _, _, _)
ApplyFrom(qs, routes, routerId, n) ==
    IF n > Len(routes) THEN qs
    ELSE LET e == routes[n]
             qs2 == IF HasUseQueryFn(e.value)
                    THEN [qs EXCEPT ![e.value.ref] = Wrap(@, FullKey(routerId, e.key))]
                    ELSE qs
         IN ApplyFrom(qs2, routes, routerId, n + 1)

\* (a middleware that also rebinds the leaves of the nested Router Instances)
applyMiddlewareToNested(qs, routes, routerId) ==
    LET direct == ApplyFrom(qs, routes, routerId, 1)
        nested == UNION {{routers[routes[n].value.ref].routes[m].value.ref :
                             m \in {x \in 1..Len(routers[routes[n].value.ref].routes) :
                                       HasUseQueryFn(routers[routes[n].value.ref].routes[x].value)}} :
                         n \in {y \in 1..Len(routes) : routes[y].value.t = "router"}}
    IN [i \in DOMAIN direct |->
           IF i \in nested THEN <<FullKey(routerId, "nested")>> ELSE direct[i]]

applyQueryKeyMiddleware(qs, routes, routerId) == ApplyFrom(qs, routes, routerId, 1)

(***************************************************************************)
(* Router Definitions a caller can write: a sequence of (key, value)       *)
(* entries with distinct keys, over the objects that exist.                *)
(***************************************************************************)
Values == {QueryValue(i) : i \in 1..Len(queries)}
            \cup {MutationValue}
            \cup {RouterValue(j) : j \in 1..Len(routers)}

Entries == {[key |-> k, value |-> v] : k \in Names, v \in Values}

Definitions ==
    {<<>>} \cup {<<e>> : e \in Entries}
           \cup {<<p[1], p[2]>> : p \in {q \in Entries \X Entries : q[1].key # q[2].key}}

(***************************************************************************)
(* query(queryFn)                                                          *)
(***************************************************************************)
query ==
    /\ Len(queries) < MaxQueries
    /\ queries' = Append(queries, OriginalUseQuery)
    /\ UNCHANGED <<routerCount, routers, engineVars, attempt>>

(***************************************************************************)
(* createRouter(routes)                                                    *)
(***************************************************************************)
\* const routerId = routerCount++ + ''
RouterIdPreIncrement(count) == ToString(count + 1)
RouterIdOf(count) == ToString(count)

CountAfter(count) == count + 1

createRouter(routes) ==
    /\ Len(routers) < MaxRouters
    /\ LET routerId == RouterIdOf(routerCount)
       IN /\ routerCount' = CountAfter(routerCount)
          /\ queries' = applyQueryKeyMiddleware(queries, routes, routerId)
          /\ routers' = Append(routers, [routerId |-> routerId, routes |-> routes])
    /\ UNCHANGED <<engineVars, attempt>>

(***************************************************************************)
(* JavaScript values passed as query arguments and filter suffixes:        *)
(* undefined, or a plain object with some of the fields of ArgFields.      *)
(***************************************************************************)
ArgFields == {"id"}
UndefinedArg == [t |-> "undefined", fields |-> {}]
ObjectArg(fs) == [t |-> "object", fields |-> fs]
Args == {UndefinedArg} \cup {ObjectArg(fs) : fs \in SUBSET ArgFields}

\* data a caller can set, and the result the (deterministic) fetchers resolve with
Data == {"d1", "d2"}
Fetched == {"d1"}

(***************************************************************************)
(* The cache engine (QueryClient).  An entry has the stored data, the      *)
(* stale mark set by invalidation, whether its fetcher is running, and     *)
(* how many times its fetcher was started.                                 *)
(***************************************************************************)
EmptyCache == [k \in {} |-> 0]

Put(c, key, entry) ==
    [k \in DOMAIN c \cup {key} |-> IF k = key THEN entry ELSE c[k]]

NewEntry == [data |-> Undefined, isInvalidated |-> FALSE,
             fetching |-> FALSE, fetchCount |-> 0]

EntryAt(c, key) == IF key \in DOMAIN c THEN c[key] ELSE NewEntry

\* a query key matches a filter key when every element of the filter key
\* matches the element at its place: equal, or both objects and every field
\* of the filter's object is in the key's object
PartialMatchArg(a, b) ==
    \/ a = b
    \/ a.t = "object" /\ b.t = "object" /\ b.fields \subseteq a.fields

PartialMatchKey(key, filterKey) ==
    /\ key[1] = filterKey[1]
    /\ PartialMatchArg(key[2], filterKey[2])

\* runQuery: an entry with no data or marked stale has its fetcher started,
\* unless it is running already; otherwise the stored data is served
NeedsFetch(entry) ==
    ~entry.fetching /\ (entry.data = Undefined \/ entry.isInvalidated)

RunQuery(c, key) ==
    LET entry == EntryAt(c, key)
    IN IF NeedsFetch(entry)
       THEN Put(c, key, [entry EXCEPT !.fetching = TRUE,
                                      !.fetchCount = @ + 1])
       ELSE c

GetQueryData(c, key) == EntryAt(c, key).data

SetQueryData(c, key, data) ==
    Put(c, key, [EntryAt(c, key) EXCEPT !.data = Some(data),
                                        !.isInvalidated = FALSE])

CancelQueries(c, filterKey) ==
    [k \in DOMAIN c |->
        IF PartialMatchKey(k, filterKey)
        THEN [c[k] EXCEPT !.fetching = FALSE] ELSE c[k]]

InvalidateQueries(c, filterKey) ==
    [k \in DOMAIN c |->
        IF PartialMatchKey(k, filterKey)
        THEN [c[k] EXCEPT !.isInvalidated = TRUE] ELSE c[k]]

(***************************************************************************)
(* `last` is the last thing that happened at the cache engine: the call,   *)
(* the object it was made on (the query object of a useQuery, or the       *)
(* router and name of an accessor), the key and the filters handed over,   *)
(* and the data the call returned.                                         *)
(***************************************************************************)
Event(op, leaf, router, name, args, key, filters, result) ==
    [op |-> op, leaf |-> leaf, router |-> router, name |-> name, args |-> args,
     key |-> key, filters |-> filters, result |-> result]

(***************************************************************************)
(* query().useQuery(args, options, _key): hands the engine the key         *)
(* [_key, args].                                                           *)
(***************************************************************************)
QueryKey(key, args) == <<key, args>>

useQuery(i, args) ==
    /\ LET queryKey == QueryKey(PublicKey(queries[i]), args)
       IN /\ cache' = RunQuery(cache, queryKey)
          /\ last' = Event("useQuery", i, 0, "", args, queryKey, Undefined,
                           EntryAt(cache, queryKey).data)
    /\ calls' = calls + 1
    /\ UNCHANGED <<routerVars, attempt>>

(***************************************************************************)
(* The engine runs a started fetcher to its end: it resolves with a        *)
(* result, which is stored, or it fails.                                   *)
(***************************************************************************)
FetchResolve(key, data) ==
    /\ key \in DOMAIN cache
    /\ cache[key].fetching
    /\ cache' = [cache EXCEPT ![key] = [@ EXCEPT !.data = Some(data),
                                                 !.isInvalidated = FALSE,
                                                 !.fetching = FALSE]]
    /\ last' = Event("resolve", 0, 0, "", UndefinedArg, key, Undefined, Some(data))
    /\ UNCHANGED <<routerVars, calls, attempt>>

FetchReject(key) ==
    /\ key \in DOMAIN cache
    /\ cache[key].fetching
    /\ cache' = [cache EXCEPT ![key] = [@ EXCEPT !.fetching = FALSE]]
    /\ last' = Event("reject", 0, 0, "", UndefinedArg, key, Undefined, Undefined)
    /\ UNCHANGED <<routerVars, calls, attempt>>

(***************************************************************************)
(* createContext(routes, routerId)(): the Context Tree of router j.  A     *)
(* value with a useQuery function becomes an accessor bound to             *)
(* routerId + '/' + key, a value with useContext becomes the tree its own  *)
(* useContext() returns, any other value leaves no entry.                  *)
(***************************************************************************)
BaseKeyOfName(routerId, key) == key
BaseKey(routerId, key) == FullKey(routerId, key)

Accessor(baseKey) == [t |-> "accessor", baseKey |-> baseKey]

RECURSIVE Context(_)
Context(j) ==
    LET routes == routers[j].routes
        routerId == routers[j].routerId
        emitted == {n \in 1..Len(routes) :
                       HasUseQueryFn(routes[n].value) \/ HasUseContext(routes[n].value)}
        at(key) == CHOOSE n \in emitted : routes[n].key = key
    IN [key \in {routes[n].key : n \in emitted} |->
           IF HasUseQueryFn(routes[at(key)].value)
           THEN Accessor(BaseKey(routerId, key))
           ELSE [t |-> "context", tree |-> Context(routes[at(key)].value.ref)]]

\* router j's useContext() has an accessor under `name`
IsAccessor(j, name) ==
    /\ name \in DOMAIN Context(j)
    /\ Context(j)[name].t = "accessor"

(***************************************************************************)
(* The accessor's four functions.                                          *)
(***************************************************************************)
Filters == {Undefined} \cup {Some([queryKey |-> a]) : a \in Args}
\* filters?.queryKey
FilterQueryKey(filters) == IF filters = Undefined THEN UndefinedArg ELSE filters[1].queryKey

\* queryClient.getQueryData([baseKey, queryKey])
GetDataKey(baseKey, queryKey) == <<Some(baseKey), queryKey>>

\* queryClient.setQueryData([baseKey, queryKey], data)
SetDataKeyBaseOnly(baseKey, queryKey) == <<Some(baseKey), UndefinedArg>>
SetDataKey(baseKey, queryKey) == <<Some(baseKey), queryKey>>

\* { ...filters, queryKey: [baseKey, filters?.queryKey] }
FilterKeyOfCaller(baseKey, filters) == <<Undefined, FilterQueryKey(filters)>>
FilterKey(baseKey, filters) == <<Some(baseKey), FilterQueryKey(filters)>>

getData(j, name, queryKey) ==
    /\ IsAccessor(j, name)
    /\ LET key == GetDataKey(Context(j)[name].baseKey, queryKey)
       IN last' = Event("getData", 0, j, name, queryKey, key, Undefined, GetQueryData(cache, key))
    /\ calls' = calls + 1
    /\ UNCHANGED <<routerVars, cache, attempt>>

setData(j, name, queryKey, data) ==
    /\ IsAccessor(j, name)
    /\ LET key == SetDataKey(Context(j)[name].baseKey, queryKey)
       IN /\ cache' = SetQueryData(cache, key, data)
          /\ last' = Event("setData", 0, j, name, queryKey, key, Undefined, Some(data))
    /\ calls' = calls + 1
    /\ UNCHANGED <<routerVars, attempt>>

cancel(j, name, filters) ==
    /\ IsAccessor(j, name)
    /\ LET key == FilterKey(Context(j)[name].baseKey, filters)
       IN /\ cache' = CancelQueries(cache, key)
          /\ last' = Event("cancel", 0, j, name, FilterQueryKey(filters), key, filters, Undefined)
    /\ calls' = calls + 1
    /\ UNCHANGED <<routerVars, attempt>>

invalidate(j, name, filters) ==
    /\ IsAccessor(j, name)
    /\ LET key == FilterKey(Context(j)[name].baseKey, filters)
       IN /\ cache' = InvalidateQueries(cache, key)
          /\ last' = Event("invalidate", 0, j, name, FilterQueryKey(filters), key, filters, Undefined)
    /\ calls' = calls + 1
    /\ UNCHANGED <<routerVars, attempt>>

(***************************************************************************)
(* Initial state: module load.                                             *)
(***************************************************************************)
NoCall == Event("none", 0, 0, "", UndefinedArg, <<>>, Undefined, Undefined)
NoAttempt == [pc |-> "idle", onSuccess |-> FALSE, onSettled |-> FALSE, onError |-> FALSE,
              fn |-> "pending", result |-> Undefined, fnError |-> Undefined,
              error |-> Undefined, fired |-> <<>>,
              outcome |-> "none", value |-> Undefined]

Init ==
    /\ routerCount = 0
    /\ queries = <<>>
    /\ routers = <<>>
    /\ cache = EmptyCache
    /\ calls = 0
    /\ last = NoCall
    /\ attempt = NoAttempt

(***************************************************************************)
(* Spec: any Router Definitions over the objects that exist, and           *)
(* invocations of the query leaves.                                        *)
(***************************************************************************)
Next ==
    \/ query
    \/ \E routes \in Definitions : createRouter(routes)
    \/ \E i \in 1..Len(queries), args \in Args :
           calls < MaxInvocations /\ useQuery(i, args)

Spec == Init /\ [][Next]_vars

(***************************************************************************)
(* What the claims speak of.                                               *)
(***************************************************************************)
\* the places (router, entry) of the Router Instances that hold a query leaf
QueryPositions ==
    {p \in UNION {{<<j, n>> : n \in 1..Len(routers[j].routes)} : j \in 1..Len(routers)} :
        routers[p[1]].routes[p[2]].value.t = "query"}

LeafAt(p) == routers[p[1]].routes[p[2]].value.ref
NameAt(p) == routers[p[1]].routes[p[2]].key

\* namespaceId + "/" + name of a place
PrefixAt(p) == routers[p[1]].routerId \o "/" \o NameAt(p)

\* the prefix a query object hands the engine when it is invoked
PrefixUsed(i) == PublicKey(queries[i])

Earlier(p, q) == p[1] < q[1] \/ (p[1] = q[1] /\ p[2] <= q[2])

\* the first place a query object was composed at
FirstPosition(i) ==
    CHOOSE p \in QueryPositions :
        /\ LeafAt(p) = i
        /\ \A q \in QueryPositions : LeafAt(q) = i => Earlier(p, q)

IsInvocation == calls' = calls + 1 /\ last'.op = "useQuery"

(***************************************************************************)
(* C1: the k-th createRouter call of the process (k = 0, 1, ...) is given  *)
(* namespace id k: the ids are the decimal strings of 0, 1, 2, ... in call *)
(* order, all distinct, and the counter is the number of calls made.       *)
(***************************************************************************)
C1_IdsDenseInCallOrder ==
    /\ routerCount = Len(routers)
    /\ \A k \in 1..Len(routers) : routers[k].routerId = ToString(k - 1)
    /\ \A j, k \in 1..Len(routers) : j # k => routers[j].routerId # routers[k].routerId

C1_Witness ==
    /\ Len(routers) = 2
    /\ routers[1].routerId = "0"
    /\ routers[2].routerId = "1"
    /\ routers[2].routes # <<>>
    /\ routers[2].routes[1].value = RouterValue(1)

(***************************************************************************)
(* C2 as claimed: any two query leaves at different places (different      *)
(* names in one Router Instance, or different Router Instances) use        *)
(* different key prefixes when invoked.                                    *)
(***************************************************************************)
C2_DistinctPlacesDistinctPrefixes ==
    \A p, q \in QueryPositions : p # q => PrefixUsed(LeafAt(p)) # PrefixUsed(LeafAt(q))

(***************************************************************************)
(* C2 as amended: any two different query objects that have each been      *)
(* composed use different key prefixes when invoked, each a string; two    *)
(* places that hold the same query object share one prefix.                *)
(***************************************************************************)
C2_DistinctLeavesDistinctPrefixes ==
    \A p, q \in QueryPositions :
        /\ PrefixUsed(LeafAt(p)) # Undefined
        /\ LeafAt(p) # LeafAt(q) => PrefixUsed(LeafAt(p)) # PrefixUsed(LeafAt(q))

C2_Witness ==
    \E p, q \in QueryPositions :
        /\ p[1] # q[1]
        /\ NameAt(p) = NameAt(q)
        /\ LeafAt(p) # LeafAt(q)
        /\ PrefixUsed(LeafAt(p)) = Some("0/all")
        /\ PrefixUsed(LeafAt(q)) = Some("1/all")

(***************************************************************************)
(* C3 as claimed: every invocation useQuery(args, options) of a query      *)
(* object hands the engine the key (i + "/" + n, args) for every router i  *)
(* and name n the object has been composed under.                          *)
(***************************************************************************)
C3_KeyOfEveryComposition ==
    [][IsInvocation =>
          \A p \in QueryPositions :
              LeafAt(p) = last'.leaf => last'.key = <<Some(PrefixAt(p)), last'.args>>]_vars

(***************************************************************************)
(* C3 as amended: every invocation useQuery(args, options) of a composed   *)
(* query object hands the engine the key (i + "/" + n, args) of the router *)
(* i and name n the object was first composed under; later compositions    *)
(* of the same object do not change the key.                               *)
(***************************************************************************)
C3_KeyOfFirstComposition ==
    [][IsInvocation =>
          \A p \in QueryPositions :
              LeafAt(p) = last'.leaf =>
                  last'.key = <<Some(PrefixAt(FirstPosition(last'.leaf))), last'.args>>]_vars

\* routers A (id 0) and B (id 1) each hold their own leaf "fetchAll"; both
\* were invoked with {} and the cache has the two entries
C3_Witness ==
    /\ \E p, q \in QueryPositions :
          /\ p[1] = 1 /\ q[1] = 2
          /\ NameAt(p) = "fetchAll" /\ NameAt(q) = "fetchAll"
          /\ LeafAt(p) # LeafAt(q)
    /\ <<Some("0/fetchAll"), ObjectArg({})>> \in DOMAIN cache
    /\ <<Some("1/fetchAll"), ObjectArg({})>> \in DOMAIN cache
    /\ last.op = "useQuery"
    /\ last.key = <<Some("1/fetchAll"), ObjectArg({})>>

(***************************************************************************)
(* SpecCache: the cache engine driven through the routers of one           *)
(* application module, by invocations and by every accessor function.      *)
(***************************************************************************)
Entry(key, value) == [key |-> key, value |-> value]

AppDefinitions ==
    IF routers = <<>>
    THEN {<<Entry("all", QueryValue(1)), Entry("fetchAll", QueryValue(2))>>,
          <<Entry("all", QueryValue(1)), Entry("fetchAll", MutationValue)>>}
    ELSE {<<Entry("all", RouterValue(1)), Entry("fetchAll", MutationValue)>>,
          <<Entry("all", QueryValue(2)), Entry("fetchAll", RouterValue(1))>>}

NextCache ==
    \/ query
    \/ \E routes \in AppDefinitions \cap Definitions : createRouter(routes)
    \/ \E i \in 1..Len(queries), args \in Args :
           calls < MaxCalls /\ useQuery(i, args)
    \/ \E key \in DOMAIN cache, data \in Fetched : FetchResolve(key, data)
    \/ \E key \in DOMAIN cache : FetchReject(key)
    \/ \E j \in 1..Len(routers), name \in Names, queryKey \in Args :
           calls < MaxCalls /\ getData(j, name, queryKey)
    \/ \E j \in 1..Len(routers), name \in Names, queryKey \in Args, data \in Data :
           calls < MaxCalls /\ setData(j, name, queryKey, data)
    \/ \E j \in 1..Len(routers), name \in Names, filters \in Filters :
           calls < MaxCalls /\ cancel(j, name, filters)
    \/ \E j \in 1..Len(routers), name \in Names, filters \in Filters :
           calls < MaxCalls /\ invalidate(j, name, filters)

SpecCache == Init /\ [][NextCache]_vars

(***************************************************************************)
(* What the claims about the accessors speak of.                           *)
(***************************************************************************)
AccessorOps == {"getData", "setData", "cancel", "invalidate"}

IsCall(ops) == calls' = calls + 1 /\ last'.op \in ops

\* namespaceId + "/" + name of the leaf an accessor call was made on
OwnPrefix(event) == Some(routers[event.router].routerId \o "/" \o event.name)

\* the query object behind the accessor an accessor call was made on
LeafOf(event) ==
    LET routes == routers[event.router].routes
    IN routes[CHOOSE n \in 1..Len(routes) : routes[n].key = event.name].value.ref

\* invoking the query key now would start its fetcher, or it is running
WouldFetch(c, key) ==
    \/ EntryAt(c, key).fetching
    \/ RunQuery(c, key)[key].fetchCount > EntryAt(c, key).fetchCount

(***************************************************************************)
(* C7: on one leaf's accessor, getData(args) called right after            *)
(* setData(args, value) returns value; neither setData nor getData starts  *)
(* a fetcher; getData of a key the cache has no entry for returns          *)
(* undefined.                                                              *)
(***************************************************************************)
C7_SetThenGet ==
    [][/\ (/\ IsCall({"getData"})
           /\ last.op = "setData"
           /\ last'.router = last.router /\ last'.name = last.name
           /\ last'.args = last.args)
          => last'.result = last.result
       /\ IsCall({"getData", "setData"})
          => \A k \in DOMAIN cache' :
                 /\ EntryAt(cache', k).fetchCount = EntryAt(cache, k).fetchCount
                 /\ EntryAt(cache', k).fetching = EntryAt(cache, k).fetching
       /\ (IsCall({"getData"}) /\ last'.key \notin DOMAIN cache)
          => last'.result = Undefined]_vars

\* setData({id}, "d2") then getData({id}) on router 1's "all": "d2" is
\* returned and the entry's fetcher was never started
C7_Witness ==
    /\ calls = 2
    /\ last.op = "getData"
    /\ last.key = <<Some("1/all"), ObjectArg({"id"})>>
    /\ last.result = Some("d2")
    /\ last.key \in DOMAIN cache
    /\ cache[last.key].fetchCount = 0

(***************************************************************************)
(* C8: a call of getData, setData, cancel or invalidate on a leaf's        *)
(* accessor, with any arguments and filters, hands the engine a key whose  *)
(* prefix is the leaf's own namespaceId + "/" + name, reads only the       *)
(* entry under that prefix, and leaves every cache entry with another      *)
(* prefix as it was; an entry it creates has that prefix.                  *)
(***************************************************************************)
C8_OnlyOwnPrefix ==
    [][IsCall(AccessorOps) =>
          /\ last'.key[1] = OwnPrefix(last')
          /\ \A k \in DOMAIN cache :
                 k[1] # OwnPrefix(last') => k \in DOMAIN cache' /\ cache'[k] = cache[k]
          /\ \A k \in DOMAIN cache' \ DOMAIN cache : k[1] = OwnPrefix(last')
          /\ last'.op = "getData"
                 => last'.result = EntryAt(cache, <<OwnPrefix(last'), last'.args>>).data]_vars

\* setData on router 0's "all" stored "d2" under "0/all" while the sibling
\* leaf "fetchAll" keeps the entry "0/fetchAll" its fetcher resolved with "d1"
C8_Witness ==
    /\ last.op = "setData"
    /\ last.key = <<Some("0/all"), ObjectArg({})>>
    /\ cache[last.key].data = Some("d2")
    /\ \E k \in DOMAIN cache :
          /\ k[1] = Some("0/fetchAll")
          /\ cache[k].data = Some("d1")
          /\ cache[k].fetchCount = 1

(***************************************************************************)
(* C9 as claimed: an invocation of a composed leaf right after an          *)
(* invocation with the same arguments uses the same key; an invocation     *)
(* that finds a fresh entry with data is served that data and starts no    *)
(* fetcher; and after invalidate() with no filter on the leaf's accessor,  *)
(* an invocation of the leaf with any arguments it has an entry for        *)
(* starts the fetcher.                                                     *)
(***************************************************************************)
C9_CachedUntilInvalidated ==
    [][/\ (/\ IsCall({"useQuery"})
           /\ last.op = "useQuery"
           /\ last.key[1] # Undefined
           /\ last'.leaf = last.leaf /\ last'.args = last.args)
          => last'.key = last.key
       /\ (/\ IsCall({"useQuery"})
           /\ EntryAt(cache, last'.key).data # Undefined
           /\ ~EntryAt(cache, last'.key).isInvalidated)
          => /\ last'.result = EntryAt(cache, last'.key).data
             /\ cache' = cache
       /\ (/\ IsCall({"invalidate"})
           /\ last'.filters = Undefined
           /\ PrefixUsed(LeafOf(last')) = OwnPrefix(last'))
          => \A args \in Args :
                 LET key == QueryKey(PrefixUsed(LeafOf(last')), args)
                 IN key \in DOMAIN cache' => WouldFetch(cache', key)]_vars

(***************************************************************************)
(* C10 as claimed: invalidate and cancel called with no filter, or with a  *)
(* filter that has no queryKey, reach every cache entry under the leaf's   *)
(* prefix whatever its arguments; called with a filter queryKey s they     *)
(* reach the entry under (prefix, s).                                      *)
(***************************************************************************)
C10_NoSuffixIsWildcard ==
    LET noSuffix == last.filters = Undefined \/ last.filters[1].queryKey = UndefinedArg
        Reached(k) == /\ k[1] = OwnPrefix(last)
                      /\ noSuffix \/ k[2] = last.filters[1].queryKey
    IN /\ last.op = "invalidate"
          => \A k \in DOMAIN cache : Reached(k) => cache[k].isInvalidated
       /\ last.op = "cancel"
          => \A k \in DOMAIN cache : Reached(k) => ~cache[k].fetching

(***************************************************************************)
(* The wrapped queryFn (index.ts 29-40), one invocation attempt at a time. *)
(* options.onSuccess, onSettled and onError are each present or absent; a  *)
(* present callback returns or throws each time it is called.  `fired`     *)
(* lists the callback calls of the attempt in order; outcome and value     *)
(* are what the attempt hands back to the cache engine.                    *)
(***************************************************************************)
FnErrors == {"fetch failed"}
CallbackError(name) == "thrown by " \o name

Call(name, data, error) == [name |-> name, data |-> data, error |-> error]

\* JavaScript null, as the second argument of onSettled(result, null)
Null == <<"null">>

\* the engine calls the wrapped queryFn: try { const result = await queryFn(args)
StartAttempt(onSuccess, onSettled, onError) ==
    /\ attempt.pc = "idle"
    /\ attempt' = [NoAttempt EXCEPT !.pc = "queryFn", !.onSuccess = onSuccess,
                                    !.onSettled = onSettled, !.onError = onError]
    /\ UNCHANGED <<routerVars, engineVars>>

QueryFnResolves(result) ==
    /\ attempt.pc = "queryFn"
    /\ attempt' = [attempt EXCEPT !.pc = "onSuccess", !.fn = "resolved",
                                  !.result = Some(result)]
    /\ UNCHANGED <<routerVars, engineVars>>

\* queryFn throws or rejects: control passes to catch (error)
QueryFnFails(error) ==
    /\ attempt.pc = "queryFn"
    /\ attempt' = [attempt EXCEPT !.pc = "onError", !.fn = "failed",
                                  !.fnError = Some(error), !.error = Some(error)]
    /\ UNCHANGED <<routerVars, engineVars>>

\* where a throw inside the try block goes
TryThrow(a, error) ==
    [a EXCEPT !.pc = "onError", !.error = Some(error)]

\* options?.onSuccess && options.onSuccess(result)
CallOnSuccess(throws) ==
    /\ attempt.pc = "onSuccess"
    /\ IF ~attempt.onSuccess
       THEN /\ ~throws
            /\ attempt' = [attempt EXCEPT !.pc = "onSettledResult"]
       ELSE LET called == [attempt EXCEPT !.fired =
                              Append(@, Call("onSuccess", attempt.result, Undefined))]
            IN attempt' = IF throws
                          THEN TryThrow(called, CallbackError("onSuccess"))
                          ELSE [called EXCEPT !.pc = "onSettledResult"]
    /\ UNCHANGED <<routerVars, engineVars>>

\* options?.onSettled && options.onSettled(result, null); return result
CallOnSettledResult(throws) ==
    /\ attempt.pc = "onSettledResult"
    /\ IF ~attempt.onSettled
       THEN /\ ~throws
            /\ attempt' = [attempt EXCEPT !.pc = "done", !.outcome = "return",
                                          !.value = attempt.result]
       ELSE LET called == [attempt EXCEPT !.fired =
                              Append(@, Call("onSettled", attempt.result, Null))]
            IN attempt' = IF throws
                          THEN TryThrow(called, CallbackError("onSettled"))
                          ELSE [called EXCEPT !.pc = "done", !.outcome = "return",
                                              !.value = attempt.result]
    /\ UNCHANGED <<routerVars, engineVars>>

\* options?.onError && options.onError(error)
CallOnError(throws) ==
    /\ attempt.pc = "onError"
    /\ IF ~attempt.onError
       THEN /\ ~throws
            /\ attempt' = [attempt EXCEPT !.pc = "onSettledError"]
       ELSE LET called == [attempt EXCEPT !.fired =
                              Append(@, Call("onError", Undefined, attempt.error))]
            IN attempt' = IF throws
                          THEN [called EXCEPT !.pc = "done", !.outcome = "throw",
                                              !.value = Some(CallbackError("onError"))]
                          ELSE [called EXCEPT !.pc = "onSettledError"]
    /\ UNCHANGED <<routerVars, engineVars>>

\* throw error
Rethrow(a) == [a EXCEPT !.pc = "done", !.outcome = "throw", !.value = a.error]

\* options?.onSettled && options.onSettled(undefined, error); throw error
CallOnSettledError(throws) ==
    /\ attempt.pc = "onSettledError"
    /\ IF ~attempt.onSettled
       THEN /\ ~throws
            /\ attempt' = Rethrow(attempt)
       ELSE LET called == [attempt EXCEPT !.fired =
                              Append(@, Call("onSettled", Undefined, attempt.error))]
            IN attempt' = IF throws
                          THEN [called EXCEPT !.pc = "done", !.outcome = "throw",
                                              !.value = Some(CallbackError("onSettled"))]
                          ELSE Rethrow(called)
    /\ UNCHANGED <<routerVars, engineVars>>

\* the engine has the attempt's outcome; a retry or refetch is a new attempt
AttemptOver ==
    /\ attempt.pc = "done"
    /\ attempt' = NoAttempt
    /\ UNCHANGED <<routerVars, engineVars>>

(***************************************************************************)
(* What the claims about one invocation attempt speak of.                  *)
(***************************************************************************)
AttemptDone == attempt.pc = "done"

Fired(name) == {n \in 1..Len(attempt.fired) : attempt.fired[n].name = name}

IfPresent(present, call) == IF present THEN <<call>> ELSE <<>>

(***************************************************************************)
(* C4 as claimed: in an attempt whose query function resolved, the         *)
(* callbacks called are onSuccess(result) then onSettled(result, null),    *)
(* each once (those that options has); in an attempt whose query function  *)
(* failed they are onError(error) then onSettled(undefined, error), each   *)
(* once; and no call of onSettled comes before a call of onSuccess or      *)
(* onError.                                                                *)
(***************************************************************************)
C4_CallbacksOnceInOrder ==
    /\ (AttemptDone /\ attempt.fn = "resolved") =>
           attempt.fired =
               IfPresent(attempt.onSuccess, Call("onSuccess", attempt.result, Undefined))
               \o IfPresent(attempt.onSettled, Call("onSettled", attempt.result, Null))
    /\ (AttemptDone /\ attempt.fn = "failed") =>
           attempt.fired =
               IfPresent(attempt.onError, Call("onError", Undefined, attempt.fnError))
               \o IfPresent(attempt.onSettled, Call("onSettled", Undefined, attempt.fnError))
    /\ \A m \in Fired("onSettled"), n \in Fired("onSuccess") \cup Fired("onError") : n < m

(***************************************************************************)
(* C5 as claimed: in every finished attempt, whether or not a callback     *)
(* threw, onSuccess and onError were not both called, and onSettled (when  *)
(* options has it) was called exactly once.                                *)
(***************************************************************************)
C5_OneBranchSettledOnce ==
    AttemptDone =>
        /\ Fired("onSuccess") = {} \/ Fired("onError") = {}
        /\ attempt.onSettled => Cardinality(Fired("onSettled")) = 1

(***************************************************************************)
(* C6 as claimed: an attempt whose query function failed ends by throwing  *)
(* to the engine the error value the query function failed with.           *)
(***************************************************************************)
C6_OriginalErrorRethrown ==
    (AttemptDone /\ attempt.fn = "failed") =>
        /\ attempt.outcome = "throw"
        /\ attempt.value = attempt.fnError

NextFetch ==
    \/ \E onSuccess, onSettled, onError \in BOOLEAN :
           StartAttempt(onSuccess, onSettled, onError)
    \/ \E result \in Data : QueryFnResolves(result)
    \/ \E error \in FnErrors : QueryFnFails(error)
    \/ \E throws \in BOOLEAN : CallOnSuccess(throws)
    \/ \E throws \in BOOLEAN : CallOnSettledResult(throws)
    \/ \E throws \in BOOLEAN : CallOnError(throws)
    \/ \E throws \in BOOLEAN : CallOnSettledError(throws)
    \/ AttemptOver

SpecFetch == Init /\ [][NextFetch]_vars

(***************************************************************************)
(* The object createRouter returns: { ...routes, useContext: ... }, the    *)
(* definition's entries by name with the member useContext set last, so    *)
(* a definition entry named useContext is not in the returned object.      *)
(***************************************************************************)
UseContextFn(j) == [t |-> "useContext", ref |-> j]

InstanceKeepingEntry(j) ==
    LET routes == routers[j].routes
        at(key) == CHOOSE n \in 1..Len(routes) : routes[n].key = key
        keys == {routes[n].key : n \in 1..Len(routes)}
    IN [key \in keys \cup {"useContext"} |->
           IF key \in keys THEN routes[at(key)].value ELSE UseContextFn(j)]

Instance(j) ==
    LET routes == routers[j].routes
        at(key) == CHOOSE n \in 1..Len(routes) : routes[n].key = key
    IN [key \in {routes[n].key : n \in 1..Len(routes)} \cup {"useContext"} |->
           IF key = "useContext" THEN UseContextFn(j) ELSE routes[at(key)].value]

(***************************************************************************)
(* router.useContext(): the function createContext returned is called; it  *)
(* takes the engine handle and builds the tree, and calls nothing on the   *)
(* engine.                                                                 *)
(***************************************************************************)
useContextOnNewClient(j) ==
    /\ last' = Event("useContext", 0, j, "", UndefinedArg, <<>>, Undefined, Some(Context(j)))
    /\ cache' = EmptyCache
    /\ UNCHANGED <<routerVars, calls, attempt>>

useContext(j) ==
    /\ last' = Event("useContext", 0, j, "", UndefinedArg, <<>>, Undefined, Some(Context(j)))
    /\ UNCHANGED <<routerVars, cache, calls, attempt>>

(***************************************************************************)
(* SpecTree: Router Definitions of any shape over the names a caller can   *)
(* write, the name useContext among them, with invocations, context        *)
(* requests and accessor calls.                                            *)
(***************************************************************************)
TreeNames == {"all", "fetchAll", "useContext"}

\* the names of a definition, in the order they are written
TreeKeys == {<<"all">>, <<"useContext">>, <<"all", "fetchAll">>,
             <<"all", "useContext">>, <<"useContext", "all">>}

TreeDefinitions ==
    UNION {{[n \in 1..Len(keys) |-> Entry(keys[n], values[n])] :
               values \in [1..Len(keys) -> Values]} : keys \in TreeKeys}

TreeArgs == {ObjectArg({})}

NextTree ==
    \/ query
    \/ \E routes \in TreeDefinitions : createRouter(routes)
    \/ \E i \in 1..Len(queries), args \in TreeArgs :
           calls < MaxCalls /\ useQuery(i, args)
    \/ \E key \in DOMAIN cache, data \in Fetched : FetchResolve(key, data)
    \/ \E j \in 1..Len(routers) : useContext(j)
    \/ \E j \in 1..Len(routers), name \in TreeNames, queryKey \in TreeArgs :
           calls < MaxCalls /\ getData(j, name, queryKey)
    \/ \E j \in 1..Len(routers), name \in TreeNames, queryKey \in TreeArgs, data \in Fetched :
           calls < MaxCalls /\ setData(j, name, queryKey, data)
    \/ \E j \in 1..Len(routers), name \in TreeNames :
           calls < MaxCalls /\ invalidate(j, name, Undefined)

SpecTree == Init /\ [][NextTree]_vars

(***************************************************************************)
(* What the claims about the trees speak of.                               *)
(***************************************************************************)
\* the Router Definition router j was composed from, by name
DefinitionOf(j) ==
    LET routes == routers[j].routes
        at(key) == CHOOSE n \in 1..Len(routes) : routes[n].key = key
    IN [key \in {routes[n].key : n \in 1..Len(routes)} |-> routes[at(key)].value]

\* `tree` has an accessor for each query of `members`, under its name, the
\* nested instance's own tree for each Router Instance of `members`, under
\* its name, and nothing else
Mirrors(tree, members) ==
    /\ DOMAIN tree = {k \in DOMAIN members : members[k].t \in {"query", "router"}}
    /\ \A k \in DOMAIN tree :
          IF members[k].t = "query"
          THEN tree[k].t = "accessor"
          ELSE tree[k] = [t |-> "context", tree |-> Context(members[k].ref)]

IsUseContext == last'.op = "useContext" /\ last' # last

(***************************************************************************)
(* C11 as claimed: the tree useContext returns for any Router Instance,    *)
(* nested or not, has one accessor per Query leaf of the instance under    *)
(* the leaf's name, one nested tree per nested Router Instance of the      *)
(* instance under its name, no entry for a Mutation and no other entry.    *)
(***************************************************************************)
C11_TreeMirrorsInstance ==
    /\ \A j \in 1..Len(routers) : Mirrors(Context(j), Instance(j))
    /\ last.op = "useContext" => Mirrors(last.result[1], Instance(last.router))

(***************************************************************************)
(* C11 as amended: the tree useContext returns for any Router Instance,    *)
(* nested or not, has one accessor per Query leaf of the Router Definition *)
(* the instance was composed from, one nested tree per nested Router       *)
(* Instance of that definition, no entry for a Mutation and no other       *)
(* entry; the definition and the instance differ only in an entry named    *)
(* useContext.                                                             *)
(***************************************************************************)
C11_TreeMirrorsDefinition ==
    /\ \A j \in 1..Len(routers) :
          /\ Mirrors(Context(j), DefinitionOf(j))
          /\ \A k \in DOMAIN DefinitionOf(j) \ {"useContext"} :
                 Instance(j)[k] = DefinitionOf(j)[k]
    /\ last.op = "useContext" => Mirrors(last.result[1], DefinitionOf(last.router))

\* useContext of router 1 = {all: router 0, fetchAll: a mutation}, where
\* router 0 = {all: a query, fetchAll: a mutation}, returned {all: {all: accessor}}
C11_Witness ==
    /\ Len(routers) = 2
    /\ routers[1].routes = <<Entry("all", QueryValue(1)), Entry("fetchAll", MutationValue)>>
    /\ routers[2].routes = <<Entry("all", RouterValue(1)), Entry("fetchAll", MutationValue)>>
    /\ last.op = "useContext"
    /\ last.router = 2
    /\ DOMAIN last.result[1] = {"all"}
    /\ last.result[1]["all"].t = "context"
    /\ DOMAIN last.result[1]["all"].tree = {"all"}
    /\ last.result[1]["all"].tree["all"] = Accessor("0/all")

\* the query objects that are direct entries of a definition
DirectLeaves(routes) ==
    {routes[n].value.ref : n \in {m \in 1..Len(routes) : routes[m].value.t = "query"}}

\* the Router Instance nested in router j under `key`
NestedAt(j, key) == DefinitionOf(j)[key].ref

IsNestedAt(j, key) == key \in DOMAIN DefinitionOf(j) /\ DefinitionOf(j)[key].t = "router"

IsComposition == Len(routers') = Len(routers) + 1

(***************************************************************************)
(* C13 as claimed: a createRouter call whose definition holds a query      *)
(* object that was composed before rebinds it: afterwards the object       *)
(* invokes with the new router's id + "/" + the name it has there.         *)
(***************************************************************************)
C13_RecompositionOverwrites ==
    [][\A i \in 1..Len(queries) :
          (/\ IsComposition
           /\ i \in DirectLeaves(routers'[Len(routers')].routes)
           /\ PrefixUsed(i) # Undefined)
          => \E n \in 1..Len(routers'[Len(routers')].routes) :
                 /\ routers'[Len(routers')].routes[n].value = QueryValue(i)
                 /\ PublicKey(queries'[i])
                        = Some(FullKey(routers'[Len(routers')].routerId,
                                       routers'[Len(routers')].routes[n].key))]_vars

(***************************************************************************)
(* C13 as amended: a createRouter call whose definition holds a query      *)
(* object that was composed before wraps its useQuery once more, with the  *)
(* new router's id + "/" + name bound in the outer wrapper, and the        *)
(* object keeps invoking with the prefix of its first composition: the     *)
(* new binding is never used.                                              *)
(***************************************************************************)
C13_RecompositionKeepsFirstBinding ==
    [][\A i \in 1..Len(queries) :
          (/\ IsComposition
           /\ i \in DirectLeaves(routers'[Len(routers')].routes)
           /\ PrefixUsed(i) # Undefined)
          => /\ PublicKey(queries'[i]) = PrefixUsed(i)
             /\ PublicKey(queries'[i]) = Some(queries'[i][1])
             /\ Len(queries'[i]) > Len(queries[i])
             /\ \E n \in 1..Len(routers'[Len(routers')].routes) :
                    /\ routers'[Len(routers')].routes[n].value = QueryValue(i)
                    /\ queries'[i][Len(queries'[i])]
                           = FullKey(routers'[Len(routers')].routerId,
                                     routers'[Len(routers')].routes[n].key)]_vars

\* one query object is "all" of router 0 and "fetchAll" of router 1; invoked
\* after both compositions it hands the engine the prefix "0/all"
C13_Witness ==
    /\ Len(routers) = 2
    /\ Entry("all", QueryValue(1)) \in {routers[1].routes[n] : n \in 1..Len(routers[1].routes)}
    /\ Entry("fetchAll", QueryValue(1)) \in {routers[2].routes[n] : n \in 1..Len(routers[2].routes)}
    /\ queries[1] = <<"0/all", "1/fetchAll">>
    /\ last.op = "useQuery"
    /\ last.leaf = 1
    /\ last.key[1] = Some("0/all")

(***************************************************************************)
(* C14: no step changes what was assigned at a composition: every Router   *)
(* Instance keeps its namespace id and entries, every query object that    *)
(* has a prefix keeps invoking with it, every instance's tree keeps its    *)
(* accessors' prefixes, each direct leaf first composed in an instance     *)
(* invokes with that instance's id + "/" + name, and the counter changes   *)
(* only in a createRouter call, by one.                                    *)
(***************************************************************************)
C14_PrefixesFixedAtComposition ==
    [][/\ \A j \in 1..Len(routers) :
              /\ j <= Len(routers')
              /\ routers'[j] = routers[j]
              /\ (Context(j))' = Context(j)
       /\ \A i \in 1..Len(queries) :
              PrefixUsed(i) # Undefined => PublicKey(queries'[i]) = PrefixUsed(i)
       /\ \A p \in QueryPositions :
              FirstPosition(LeafAt(p)) = p
                  => PublicKey(queries'[LeafAt(p)]) = Some(PrefixAt(p))
       /\ IF IsComposition
          THEN routerCount' = routerCount + 1
          ELSE routerCount' = routerCount /\ routers' = routers]_vars

\* router 0's leaf "all" was invoked and its fetch resolved, router 1 was
\* composed with the same query object and a nested router 0, and setData
\* was called on router 1's accessor: the leaf still invokes with "0/all"
C14_Witness ==
    /\ Len(routers) = 2
    /\ routers[1] = [routerId |-> "0", routes |-> <<Entry("all", QueryValue(1))>>]
    /\ routers[2] = [routerId |-> "1",
                     routes |-> <<Entry("all", QueryValue(1)), Entry("fetchAll", RouterValue(1))>>]
    /\ routerCount = 2
    /\ PrefixUsed(1) = Some("0/all")
    /\ <<Some("0/all"), ObjectArg({})>> \in DOMAIN cache
    /\ cache[<<Some("0/all"), ObjectArg({})>>].fetchCount = 1
    /\ last.op = "setData"
    /\ last.router = 2
    /\ last.key[1] = Some("1/all")

(***************************************************************************)
(* C15: a useContext call on a Router Instance changes no cache entry,     *)
(* starts no fetcher, and changes no router, query object or counter; the  *)
(* tree it returns is determined by the instance alone, so a tree returned *)
(* earlier for the same instance is the tree a call returns now, whatever  *)
(* the cache holds and whatever fetchers are running.                      *)
(***************************************************************************)
C15_UseContextIsProjection ==
    [][/\ IsUseContext
          => /\ cache' = cache
             /\ calls' = calls
             /\ routerCount' = routerCount /\ queries' = queries /\ routers' = routers
             /\ attempt' = attempt
             /\ last'.result = Some(Context(last'.router))
             /\ (last.op = "useContext" /\ last.router = last'.router)
                    => last'.result = last.result
       /\ \A j \in 1..Len(routers) :
              (last.op = "useContext" /\ last.router = j)
                  => (Context(j))' = last.result[1]]_vars

\* useContext of router 0 = {all: a query} returned {all: accessor on
\* "0/all"} while the fetcher of ("0/all", {}) is running
C15_Witness ==
    /\ last.op = "useContext"
    /\ last.router = 1
    /\ "all" \in DOMAIN last.result[1]
    /\ last.result[1]["all"] = Accessor("0/all")
    /\ <<Some("0/all"), ObjectArg({})>> \in DOMAIN cache
    /\ cache[<<Some("0/all"), ObjectArg({})>>].fetching

\* the place of the accessor an accessor call was made on
PositionOf(event) ==
    <<event.router,
      CHOOSE n \in 1..Len(routers[event.router].routes) :
          routers[event.router].routes[n].key = event.name>>

\* the prefix the accessor at place p is bound to
AccessorPrefixAt(p) == Some(Context(p[1])[NameAt(p)].baseKey)

(***************************************************************************)
(* C16 as claimed: at every place of every Router Instance that holds a    *)
(* query object, whatever was composed before or after, the prefix the     *)
(* object invokes with is the prefix its accessor there is bound to; an    *)
(* accessor call hands the engine that prefix, and an invocation right     *)
(* after setData(args, v) on the accessor, with the same args, uses the    *)
(* key setData wrote and is served v.                                      *)
(***************************************************************************)
C16_AccessorPrefixIsLeafPrefix ==
    [][/\ (\A p \in QueryPositions : PrefixUsed(LeafAt(p)) = AccessorPrefixAt(p))'
       /\ IsCall(AccessorOps)
          => last'.key[1] = PublicKey(queries'[LeafOf(last')])
       /\ (/\ IsCall({"useQuery"})
           /\ last.op = "setData"
           /\ LeafOf(last) = last'.leaf
           /\ last'.args = last.args)
          => /\ last'.key = last.key
             /\ last'.result = last.result]_vars

(***************************************************************************)
(* C16 as amended: at the place where a query object was first composed    *)
(* (for an object composed once: at its only place), whatever was composed *)
(* before or after, the prefix the object invokes with is the prefix its   *)
(* accessor there is bound to; an accessor call there hands the engine     *)
(* that prefix, and an invocation right after setData(args, v) on that     *)
(* accessor, with the same args, uses the key setData wrote and is served  *)
(* v.                                                                      *)
(***************************************************************************)
C16_FirstAccessorPrefixIsLeafPrefix ==
    [][/\ (\A p \in QueryPositions :
              FirstPosition(LeafAt(p)) = p => PrefixUsed(LeafAt(p)) = AccessorPrefixAt(p))'
       /\ (IsCall(AccessorOps) /\ (FirstPosition(LeafOf(last)) = PositionOf(last))')
          => last'.key[1] = PublicKey(queries'[LeafOf(last')])
       /\ (/\ IsCall({"useQuery"})
           /\ last.op = "setData"
           /\ LeafOf(last) = last'.leaf
           /\ FirstPosition(LeafOf(last)) = PositionOf(last)
           /\ last'.args = last.args)
          => /\ last'.key = last.key
             /\ last'.result = last.result]_vars

\* one query object is "all" of router 0 and "fetchAll" of router 1;
\* setData({}, "d1") on router 0's accessor "all" and then the object
\* invoked with {}: it is served "d1" from ("0/all", {}) and no fetcher ran
C16_Witness ==
    /\ Len(queries) >= 1
    /\ queries[1] = <<"0/all", "1/fetchAll">>
    /\ last.op = "useQuery"
    /\ last.leaf = 1
    /\ last.key = <<Some("0/all"), ObjectArg({})>>
    /\ last.result = Some("d1")
    /\ cache[last.key].fetchCount = 0

(***************************************************************************)
(* C17: a query object that was never placed in a router definition is     *)
(* invoked with an undefined prefix: its key is (undefined, args), the     *)
(* key every other un-composed query object uses for the same args, so     *)
(* two of them invoked with equal args address one cache entry; a query    *)
(* object that was composed invokes with a prefix that is a string.        *)
(***************************************************************************)
C17_UncomposedShareUndefinedPrefix ==
    [][IsInvocation =>
          /\ queries[last'.leaf] = OriginalUseQuery
             => /\ last'.key = <<Undefined, last'.args>>
                /\ \A k \in 1..Len(queries) :
                       queries[k] = OriginalUseQuery
                           => QueryKey(PublicKey(queries[k]), last'.args) = last'.key
                /\ (/\ last.op = "useQuery"
                    /\ last.leaf # last'.leaf
                    /\ queries[last.leaf] = OriginalUseQuery
                    /\ last.args = last'.args)
                   => last'.key = last.key
          /\ queries[last'.leaf] # OriginalUseQuery
             => /\ last'.key[1] # Undefined
                /\ last'.leaf \in {LeafAt(p) : p \in QueryPositions}]_vars

\* two query objects, neither composed, were invoked with {}: the cache has
\* the single entry (undefined, {}) and its fetcher was started once
C17_Witness ==
    /\ Len(queries) = 2
    /\ queries[1] = OriginalUseQuery /\ queries[2] = OriginalUseQuery
    /\ calls = 2
    /\ last.op = "useQuery"
    /\ last.leaf = 2
    /\ last.key = <<Undefined, ObjectArg({})>>
    /\ DOMAIN cache = {last.key}
    /\ cache[last.key].fetchCount = 1

(***************************************************************************)
(* C18: a createRouter call rewrites the query objects of the caller's     *)
(* definition themselves (each direct leaf's useQuery gets a wrapper, no   *)
(* other query object changes) and returns an object whose members are the *)
(* definition's, by reference, so the leaf in the definition and the leaf  *)
(* in the instance are one object invoking with one namespaced key; the    *)
(* instance's names are the definition's names and useContext, and its     *)
(* useContext member is the accessor function even when the definition     *)
(* has an entry of that name.                                              *)
(***************************************************************************)
C18_InstanceSharesRewrittenLeaves ==
    [][\A j \in 1..(Len(routers) + 1) :
          (IsComposition /\ j = Len(routers) + 1)
          => /\ (DOMAIN Instance(j) = DOMAIN DefinitionOf(j) \cup {"useContext"})'
             /\ (Instance(j)["useContext"] = UseContextFn(j))'
             /\ (\A key \in DOMAIN DefinitionOf(j) \ {"useContext"} :
                    Instance(j)[key] = DefinitionOf(j)[key])'
             /\ \A i \in 1..Len(queries) :
                    IF i \in DirectLeaves(routers'[j].routes)
                    THEN /\ Len(queries'[i]) > Len(queries[i])
                         /\ PublicKey(queries'[i]) # Undefined
                    ELSE queries'[i] = queries[i]
             /\ (\A key \in DOMAIN DefinitionOf(j) \ {"useContext"} :
                    DefinitionOf(j)[key].t = "query"
                        => /\ Instance(j)[key].ref = DefinitionOf(j)[key].ref
                           /\ PrefixUsed(Instance(j)[key].ref)
                                  = PrefixUsed(DefinitionOf(j)[key].ref)
                           /\ PrefixUsed(Instance(j)[key].ref) # Undefined)']_vars

\* createRouter({useContext: q1, all: q2}): the instance has the names all
\* and useContext, its useContext is the accessor function, both objects
\* were rewritten, and q2 reached through the instance invoked with "0/all"
C18_Witness ==
    /\ Len(routers) >= 1
    /\ routers[1].routes = <<Entry("useContext", QueryValue(1)), Entry("all", QueryValue(2))>>
    /\ DOMAIN Instance(1) = {"all", "useContext"}
    /\ Instance(1)["useContext"] = UseContextFn(1)
    /\ Instance(1)["all"] = QueryValue(2)
    /\ queries[1] = <<"0/useContext">>
    /\ queries[2] = <<"0/all">>
    /\ last.op = "useQuery"
    /\ last.leaf = Instance(1)["all"].ref
    /\ last.key[1] = Some("0/all")

====
